---- MODULE Spec2Model ----
(***************************************************************************)
(* Web-Scout custom search engine: the crawl queue, the politeness state,  *)
(* the crawl loop of CustomSearchEngine and the maintenance operations of  *)
(* DatabaseInitializer, over one SQLite store shared by the engines.       *)
(*                                                                         *)
(* Time is a discrete clock `now`.  Every duration of the code is given as *)
(* a number of ticks; the ticks keep the order of the durations (crawl     *)
(* delay <= cool-down < queue retention), not their ratio.                 *)
(***************************************************************************)
EXTENDS Integers, Sequences, FiniteSets, TLC

\* ------------------------------------------------------------------ bounds
\* Last tick of the clock: in the queue scenario, in the retry scenario, in
\* the store scenario and in the scenarios with two engines.
MaxTime == 4
MaxTimeRetry == 6
MaxTimeStore == 3
MaxTimePair == 2
\* Last tick of the clock in the scenario where every fetch fails.
MaxTimeFail == 16
\* Longest robots.txt (in lines) drawn for the parser.
MaxRobotsLines == 4
\* config "max_pages_per_domain" (1000 by default), scaled to the few URLs of
\* the universe.
max_pages_per_domain == 1
\* Most <h1>..<h3>, <img> and absolute <a href> elements of a parsed page.
MaxHeadings == 2
MaxImages == 1
MaxExternalLinks == 3
\* Largest max_cache_size and most gemini_api_keys of a settings file, most
\* results of a backend search, and most entries ever added to the cache.
MaxCacheSize == 2
MaxKeys == 2
MaxResults == 2
MaxAdds == 3

\* ------------------------------------------------------- program constants
\* max_retries of call_gemini_with_retry
max_retries == 3
\* SQL NULL in a TIMESTAMP column, and a missing key of last_crawl_times.
NULL == -1
\* config "crawl_delay" (default 1.0 s), in ticks.
crawl_delay == 1
\* datetime('now', '-1 hour') of the eligibility test, in ticks.
COOLDOWN == 1
\* datetime('now', '+1 hour') of the re-arm, in ticks.
RETRY_BACKOFF == 1
\* "retry_count < 3" of the re-arm.
REARM_LIMIT == 3
\* "retry_count < 5" of reset_failed_crawls.
RESET_LIMIT == 5
\* datetime('now', '-7 days') of the queue clean-up, in ticks.
QUEUE_RETENTION == 2
\* priorities: seed URLs, internal links, valuable external links, admin default.
SEED_PRIORITY == 1
INTERNAL_PRIORITY == 5
EXTERNAL_PRIORITY == 3
DEFAULT_PRIORITY == 5
\* quality_score < 0.3 of the page clean-up, in tenths.
LOW_QUALITY == 3

\* ---------------------------------------------------------------- universe
Engines == {"e1", "e2"}

U_HOME == "https://a.com/"
U_PRIV == "https://a.com/private/x"
U_GH   == "https://github.com/x"
U_EXT  == "https://b.org/"
U_FAKE == "https://github.com.b.org/"
U_NEWS == "https://news.b.org/"
U_BBC  == "https://bbc.com/x"

\* URLs that can be handed to the queue by an administrator.
URLs == {U_HOME, U_PRIV, U_GH}
NoUrl == "none"

\* urlparse(url).netloc
netloc(url) ==
    CASE url = U_HOME -> "a.com"
      [] url = U_PRIV -> "a.com"
      [] url = U_GH   -> "github.com"
      [] url = U_EXT  -> "b.org"
      [] url = U_FAKE -> "github.com.b.org"
      [] url = U_NEWS -> "news.b.org"
      [] url = U_BBC  -> "bbc.com"

\* urlparse(url).path, as its segments
url_path(url) ==
    CASE url = U_HOME -> << >>
      [] url = U_PRIV -> <<"private", "x">>
      [] url = U_GH   -> <<"x">>
      [] url = U_EXT  -> << >>
      [] url = U_FAKE -> << >>
      [] url = U_NEWS -> << >>
      [] url = U_BBC  -> <<"x">>

\* URLs of news sites.
NewsUrls == {U_NEWS, U_BBC}

Domains == {netloc(u) : u \in URLs \cup NewsUrls}

Time == 0..MaxTime

\* ------------------------------------------------------------ robots.txt
\* A robots.txt is a sequence of lines; a line is its directive and its value.
UserAgentLine(ua) == [kind |-> "user-agent", val |-> ua]
DisallowLine(p)   == [kind |-> "disallow", val |-> p]
CrawlDelayLine(n) == [kind |-> "crawl-delay", val |-> n]

RobotsAgents == {"*", "Web-Scout-MCP", "googlebot"}
RobotsPaths  == {"/", "/private", ""}
RobotsDelays == {"2", "soon"}
NoAgent == "none"

\* float(text): the number, or NULL for a ValueError
ParseFloat(text) ==
    CASE text = "0" -> 0
      [] text = "2" -> 2
      [] OTHER      -> NULL

RobotsLines ==
    {UserAgentLine(ua) : ua \in RobotsAgents}
        \cup {DisallowLine(p) : p \in RobotsPaths}
        \cup {CrawlDelayLine(d) : d \in RobotsDelays}

\* user_agent == '*' or 'web-scout' in user_agent.lower()
AgentApplies(ua) == ua \in {"*", "Web-Scout-MCP"}

DefaultRules == [allowed |-> TRUE, delay |-> NULL]

\* One iteration of the loop of _parse_robots_txt: st is the pair of
\* current_user_agent (NoAgent while None) and rules.
ParseLine(st, line) ==
    IF line.kind = "user-agent"
    THEN IF AgentApplies(line.val) THEN [st EXCEPT !.agent = line.val] ELSE st
    ELSE IF st.agent # NoAgent /\ line.kind = "disallow"
    THEN IF line.val = "/" THEN [st EXCEPT !.rules.allowed = FALSE] ELSE st
    ELSE IF st.agent # NoAgent /\ line.kind = "crawl-delay"
    THEN IF ParseFloat(line.val) # NULL
         THEN [st EXCEPT !.rules.delay = ParseFloat(line.val)]
         ELSE st
    ELSE st

RECURSIVE ParseFrom(_, _, _)
ParseFrom(lines, i, st) ==
    IF i > Len(lines) THEN st
    ELSE ParseFrom(lines, i + 1, ParseLine(st, lines[i]))

\* _parse_robots_txt(content)
ParseRobotsTxt(lines) ==
    ParseFrom(lines, 1, [agent |-> NoAgent, rules |-> DefaultRules]).rules

\* Mutant: the cached policy is not consulted.
PolicyAllowsAll(rules) == TRUE

\* robots.get("allowed", True) of a cached policy
PolicyAllows(rules) == rules.allowed

\* The path a Disallow value names, as segments.
RulePath(p) == IF p = "/private" THEN <<"private">> ELSE << >>

\* A Disallow value matches a URL path when it is non-empty and a prefix of it.
RuleMatches(p, path) ==
    /\ p # ""
    /\ Len(RulePath(p)) <= Len(path)
    /\ SubSeq(path, 1, Len(RulePath(p))) = RulePath(p)

\* The user-agent lines heading the group that line i belongs to.
GroupHeader(lines, i) ==
    LET uas  == {j \in 1..(i - 1) : lines[j].kind = "user-agent"}
        last == IF uas = {} THEN 0 ELSE CHOOSE j \in uas : \A k \in uas : k <= j
    IN  {j \in uas : \A k \in j..last : lines[k].kind = "user-agent"}

\* Line i is a rule of a group that applies to the crawler's agent.
InApplicableGroup(lines, i) ==
    \E j \in GroupHeader(lines, i) : AgentApplies(lines[j].val)

\* The robots file disallows the path for the crawler's agent.
Disallowed(lines, path) ==
    \E i \in 1..Len(lines) :
        /\ lines[i].kind = "disallow"
        /\ InApplicableGroup(lines, i)
        /\ RuleMatches(lines[i].val, path)

\* ------------------------------------------------------------- the world
\* What each domain's server answers for /robots.txt when the request succeeds.
RobotsTxt(domain) ==
    IF domain = "a.com"
    THEN <<UserAgentLine("*"), DisallowLine("/private"), CrawlDelayLine("2")>>
    ELSE IF domain \in {"news.b.org", "bbc.com"}
    THEN <<UserAgentLine("*")>>
    ELSE <<UserAgentLine("*"), DisallowLine("/")>>

\* A fetched HTML document: the title and text extracted from it and the
\* quality score computed from it (in tenths).
Docs ==
    { [title |-> "Python Guide", content |-> "Python is great", quality |-> 2],
      [title |-> "Python News",  content |-> "Python released", quality |-> 6] }

\* soup.find_all('a', href=True) of the page at url, hrefs made absolute.
LinksOf(url) ==
    CASE url = U_HOME -> <<U_PRIV, U_GH, U_EXT>>
      [] url = U_PRIV -> <<U_HOME, U_PRIV, U_GH>>
      [] url = U_GH   -> <<U_HOME, U_FAKE>>
      [] OTHER        -> << >>

\* soup.find_all('img') of the page at url: the src of each, made absolute.
ImagesOf(url) ==
    CASE url = U_HOME -> <<"https://a.com/logo.png">>
      [] OTHER        -> << >>

\* _get_seed_urls()
seed_urls == <<U_HOME>>

\* _is_valuable_external_link(domain)
valuable_domains == {"github.com"}

\* valuable in domain: the substring test of Python, on the domains of the
\* universe.
IsSubstring(valuable, domain) ==
    \/ valuable = domain
    \/ valuable = "github.com" /\ domain = "github.com.b.org"

IsValuableExternalLink(domain) ==
    \E valuable \in valuable_domains : IsSubstring(valuable, domain)

\* ------------------------------------------------------------------- state
VARIABLES
    now,               \* the clock
    crawl_queue,       \* table crawl_queue: a set of rows
    pages,             \* table pages: a set of rows
    pages_fts,         \* the FTS5 index pages_fts: a set of rows keyed by rowid
    page_seq,          \* AUTOINCREMENT counter of pages.id
    pc,                \* per engine: where its _background_crawler task is
    cur,               \* per engine: the URL its crawler holds
    sel,               \* per connection: the row SELECTed by _get_next_crawl_url
    wake,              \* per engine: end of the asyncio.sleep of the crawl delay
    robots_cache,      \* per engine: self.robots_cache
    last_crawl_times,  \* per engine: self.last_crawl_times
    last_fetch,        \* per domain: start of the latest GET issued by any engine
    robots_txt,        \* parser check: the robots.txt given to the parser
    req_url,           \* parser check: the URL asked about
    can_crawl,         \* parser check: the answer of _can_crawl_url
    txn,               \* per engine: the open transaction of _store_page
    session_closed,    \* per engine: cleanup() has closed self.session
    search_query,      \* search: the terms of the latest query
    max_results,       \* search: its max_results
    search_response,   \* search: the SearchResponse returned
    images,            \* table images: a set of rows
    links,             \* table links: a set of rows
    cleanup_result,    \* how the latest cleanup_old_data() ended
    analysis,          \* content analysis: a parsed page and what is computed from it
    reset_count,       \* what the latest reset_failed_crawls() returned
    settings,          \* settings_manager.settings, as far as the service reads it
    current_key_index, \* settings_manager._current_key_index
    search_cache,      \* search_cache.cache: the deque, leftmost entry first
    added,             \* number of calls of search_cache.add so far
    calls              \* per request: where its perform_core_search is

store_vars == <<crawl_queue, pages, pages_fts, page_seq>>
task_vars  == <<pc, cur, sel, wake>>
polite_vars == <<robots_cache, last_crawl_times, last_fetch>>
parser_vars == <<robots_txt, req_url, can_crawl>>
search_vars == <<search_query, max_results, search_response>>
media_vars == <<images, links>>
service_vars == <<settings, current_key_index, search_cache, added, calls>>
vars == <<now, crawl_queue, pages, pages_fts, page_seq, pc, cur, sel, wake,
          robots_cache, last_crawl_times, last_fetch,
          robots_txt, req_url, can_crawl,
          txn, session_closed, search_query, max_results, search_response,
          images, links, cleanup_result, analysis, reset_count,
          settings, current_key_index, search_cache, added, calls>>

\* --------------------------------------------------------- table crawl_queue
\* A row as INSERT INTO crawl_queue (url, domain, priority) leaves it: the
\* other columns take their DEFAULTs.
NewQueueRow(url, domain, priority, t) ==
    [ url |-> url, domain |-> domain, priority |-> priority,
      scheduled_time |-> t, retry_count |-> 0, last_attempt |-> NULL,
      status |-> "pending", error_message |-> "NULL" ]

\* Mutant: INSERT OR REPLACE, which replaces a queued row by a fresh one.
InsertOrReplaceQueue(queue, url, domain, priority, t) ==
    {r \in queue : r.url # url} \cup {NewQueueRow(url, domain, priority, t)}

\* INSERT OR IGNORE INTO crawl_queue (url, domain, priority): url is UNIQUE.
InsertOrIgnoreQueue(queue, url, domain, priority, t) ==
    IF \E r \in queue : r.url = url
    THEN queue
    ELSE queue \cup {NewQueueRow(url, domain, priority, t)}

\* The loop "for url in urls: INSERT OR IGNORE ..." of _add_seed_urls and
\* add_seed_urls.
RECURSIVE EnqueueAll(_, _, _, _)
EnqueueAll(queue, urls, priority, t) ==
    IF urls = << >> THEN queue
    ELSE EnqueueAll(InsertOrIgnoreQueue(queue, Head(urls), netloc(Head(urls)), priority, t),
                    Tail(urls), priority, t)

\* Mutant: WHERE status != 'completed', which retries whatever is unfinished.
EligibleNotCompleted(r, t) == r.status # "completed"

\* The WHERE clause of the SELECT of _get_next_crawl_url.
Eligible(r, t) ==
    /\ r.status = "pending"
    /\ \/ r.last_attempt = NULL
       \/ r.last_attempt < t - COOLDOWN

\* ORDER BY priority DESC, scheduled_time ASC: r comes no later than q.
OrderedBefore(r, q) ==
    \/ r.priority > q.priority
    \/ r.priority = q.priority /\ r.scheduled_time <= q.scheduled_time

\* The rows the SELECT ... LIMIT 1 may return (rows equal in both sort keys
\* come in an order SQLite does not fix).
NextCandidates(queue, t) ==
    {r \in queue : Eligible(r, t) /\ \A q \in queue : Eligible(q, t) => OrderedBefore(r, q)}

\* UPDATE crawl_queue SET status = 'crawling', last_attempt = CURRENT_TIMESTAMP
\* WHERE url = ?
MarkCrawling(queue, url, t) ==
    {IF r.url = url THEN [r EXCEPT !.status = "crawling", !.last_attempt = t] ELSE r
        : r \in queue}

\* _mark_crawl_completed(url, status)
MarkCrawlCompleted(queue, url, note) ==
    {IF r.url = url THEN [r EXCEPT !.status = "completed", !.error_message = note] ELSE r
        : r \in queue}

\* Mutant: the re-arm has no test of retry_count.
RearmAlways(r, t) ==
    [r EXCEPT !.status = "pending", !.scheduled_time = t + RETRY_BACKOFF]

\* The re-arm of _mark_crawl_failed: UPDATE ... SET status = 'pending',
\* scheduled_time = datetime('now', '+1 hour') WHERE url = ? AND retry_count < 3
Rearm(r, t) ==
    IF r.retry_count < REARM_LIMIT
    THEN [r EXCEPT !.status = "pending", !.scheduled_time = t + RETRY_BACKOFF]
    ELSE r

\* Mutant: the UPDATEs have no WHERE url = ?.
MarkCrawlFailedAll(queue, url, error, t) ==
    {Rearm([r EXCEPT !.status = "failed", !.error_message = error,
                     !.retry_count = r.retry_count + 1], t) : r \in queue}

\* _mark_crawl_failed(url, error): both UPDATEs, one commit.
MarkCrawlFailed(queue, url, error, t) ==
    {IF r.url = url
     THEN Rearm([r EXCEPT !.status = "failed", !.error_message = error,
                          !.retry_count = r.retry_count + 1], t)
     ELSE r
        : r \in queue}

\* Mutant: WHERE status IN ('failed', 'pending').
ResettableUnfinished(r) == r.status \in {"failed", "pending"}

\* The rows reset_failed_crawls updates.
Resettable(r) == r.status = "failed" /\ r.retry_count < RESET_LIMIT

\* reset_failed_crawls(): scheduled_time = now + retry_count * 10 minutes,
\* which is less than one tick of the cool-down hour for every count below 6.
ResetFailed(queue, t) ==
    {IF Resettable(r)
     THEN [r EXCEPT !.status = "pending", !.retry_count = 0, !.error_message = "NULL",
                    !.scheduled_time = t + ((r.retry_count * 10) \div 60)]
     ELSE r
        : r \in queue}

\* ------------------------------------------------------ content analysis
\* A parsed page as _classify_content and _calculate_quality_score see it:
\* the indicators that hold, and the features that are measured.
RECURSIVE CountTrue(_)
\* sum(indicators) of a list of booleans
CountTrue(indicators) ==
    IF indicators = << >> THEN 0
    ELSE (IF Head(indicators) THEN 1 ELSE 0) + CountTrue(Tail(indicators))

\* _classify_content(url, title, content, soup)
ClassifyContent(s) ==
    IF CountTrue(<<s.url_news, s.title_news, s.time_tag, s.content_news>>) >= 2
    THEN "news"
    ELSE IF CountTrue(<<s.url_edu, s.title_academic, s.content_academic>>) >= 2
    THEN "academic"
    ELSE IF CountTrue(<<s.url_reference, s.title_reference>>) >= 1
    THEN "reference"
    ELSE "web"

\* Mutant: short content is penalised.
LengthScorePenalty(content_len) ==
    IF 500 <= content_len /\ content_len <= 5000 THEN 2
    ELSE IF content_len > 300 THEN 1
    ELSE 0 - 1

\* The parts of the score, in tenths.
LengthScore(content_len) ==
    IF 500 <= content_len /\ content_len <= 5000 THEN 2
    ELSE IF content_len > 300 THEN 1
    ELSE 0

HeadingScore(headings) == IF headings >= 2 THEN 2 ELSE IF headings >= 1 THEN 1 ELSE 0

\* _calculate_quality_score(soup, content), in tenths: min(score, 1.0).
CalculateQualityScore(s) ==
    LET score == LengthScore(s.content_len)
                   + HeadingScore(s.headings)
                   + (IF s.images >= 1 THEN 1 ELSE 0)
                   + (IF s.main_or_article THEN 1 ELSE 0)
                   + (IF s.meta_description THEN 1 ELSE 0)
                   + (IF s.external_links >= 3 THEN 1 ELSE 0)
                   + (IF 10 <= s.title_len /\ s.title_len <= 100 THEN 1 ELSE 0)
                   + (IF s.lang_en THEN 1 ELSE 0)
    IN  IF score < 10 THEN score ELSE 10

\* The indicators of a page with none of them.
NoIndicators ==
    [ url_news |-> FALSE, title_news |-> FALSE, time_tag |-> FALSE, content_news |-> FALSE,
      url_edu |-> FALSE, title_academic |-> FALSE, content_academic |-> FALSE,
      url_reference |-> FALSE, title_reference |-> FALSE ]

\* The features of an empty page.
NoFeatures ==
    [ content_len |-> 0, headings |-> 0, images |-> 0, main_or_article |-> FALSE,
      meta_description |-> FALSE, external_links |-> 0, title_len |-> 0, lang_en |-> FALSE ]

\* Lengths of the extracted content around the limits the score tests; the
\* content is cut at 10000 characters.
ContentLengths == {0, 300, 301, 499, 500, 5000, 5001, 10000}
\* Lengths of the <title> text around the limits the score tests; 0 for none.
TitleLengths == {0, 9, 10, 100, 101}

\* The indicators of a document of the universe fetched from url: 'news' or
\* 'bbc' in the URL, 'news' in the title; no document has a <time> element or
\* one of the other keywords.
IndicatorsOf(url, doc) ==
    [NoIndicators EXCEPT !.url_news = url \in {U_NEWS, U_BBC},
                         !.title_news = doc.title = "Python News"]

\* Parsed pages: every combination of the indicators on an empty page, and
\* every combination of the features on a page without indicators.
Soups ==
    { [indicators |-> i, features |-> NoFeatures] :
        i \in [DOMAIN NoIndicators -> BOOLEAN] }
    \cup
    { [indicators |-> NoIndicators,
       features |-> [ content_len |-> l, headings |-> h, images |-> g, main_or_article |-> m,
                      meta_description |-> d, external_links |-> x, title_len |-> t,
                      lang_en |-> n ]] :
        l \in ContentLengths, h \in 0..MaxHeadings, g \in 0..MaxImages, m \in BOOLEAN,
        d \in BOOLEAN, x \in 0..MaxExternalLinks, t \in TitleLengths, n \in BOOLEAN }

\* ------------------------------------------------- tables pages, pages_fts
\* The row INSERT OR REPLACE INTO pages (...) writes; page_rank takes its
\* DEFAULT 0.0 and crawl_timestamp is CURRENT_TIMESTAMP.
NewPageRow(id, url, doc, t) ==
    [ id |-> id, url |-> url, domain |-> netloc(url), title |-> doc.title,
      content |-> doc.content, content_type |-> ClassifyContent(IndicatorsOf(url, doc)),
      quality_score |-> doc.quality, page_rank |-> 0,
      crawl_timestamp |-> t ]

\* INSERT OR REPLACE INTO pages: url is UNIQUE, so a row with the same url is
\* deleted and the new row is inserted under a fresh AUTOINCREMENT id.
InsertOrReplacePage(table, row) ==
    {p \in table : p.url # row.url} \cup {row}

\* INSERT OR REPLACE INTO pages_fts (rowid, title, content): only an entry
\* with the same rowid is replaced.
InsertOrReplaceFts(index, rowid, title, content) ==
    {f \in index : f.rowid # rowid}
        \cup {[rowid |-> rowid, title |-> title, content |-> content]}

\* INSERT INTO pages_fts(pages_fts) VALUES('rebuild'): the index is rebuilt
\* from the content table.
RebuildFts(table) ==
    {[rowid |-> p.id, title |-> p.title, content |-> p.content] : p \in table}

\* SELECT COUNT(*) FROM pages WHERE domain = ?
DomainPages(table, domain) == Cardinality({p \in table : p.domain = domain})

\* Mutant: the page count is not tested.
UnderCapAlways(table, domain) == TRUE

\* The test "domain_pages < self.max_pages_per_domain" of _extract_links.
UnderCap(table, domain) == DomainPages(table, domain) < max_pages_per_domain

\* The body of the loop of _extract_links for one href found on a page of
\* `domain`: the queue after it.
ExtractLink(queue, table, href, domain, t) ==
    LET link_domain == netloc(href)
        link_type   == IF link_domain = domain THEN "internal" ELSE "external"
    IN  IF (link_type = "internal" \/ IsValuableExternalLink(link_domain))
           /\ UnderCap(table, link_domain)
        THEN InsertOrIgnoreQueue(queue, href, link_domain,
                 IF link_type = "internal" THEN INTERNAL_PRIORITY ELSE EXTERNAL_PRIORITY, t)
        ELSE queue

\* _extract_links(soup, page_id, page_url, domain): the loop over the links.
RECURSIVE ExtractLinks(_, _, _, _, _)
ExtractLinks(queue, table, hrefs, domain, t) ==
    IF hrefs = << >> THEN queue
    ELSE ExtractLinks(ExtractLink(queue, table, Head(hrefs), domain, t),
                      table, Tail(hrefs), domain, t)

\* _extract_images(soup, page_id, page_url): one row per image; the table
\* has no UNIQUE constraint, so INSERT OR IGNORE always inserts.
ExtractImages(table, page_id, srcs) ==
    table \cup {[page_id |-> page_id, url |-> srcs[i]] : i \in DOMAIN srcs}

\* No cleanup_old_data() has run yet.
NoCleanup == [state |-> "none", days_old |-> NULL]

\* The pages cleanup_old_data deletes.
LowValue(p, days_old, t) ==
    /\ p.crawl_timestamp < t - days_old
    /\ p.quality_score < LOW_QUALITY
    /\ p.page_rank < 1

\* The queue rows cleanup_old_data deletes.
Expired(r, t) ==
    /\ r.status \in {"completed", "failed"}
    /\ r.last_attempt # NULL
    /\ r.last_attempt < t - QUEUE_RETENTION

\* ------------------------------------------------------ the search service
\* Requests that run perform_core_search as tasks of one event loop.
Requests == {"q1", "q2"}

\* DEFAULT_SETTINGS: max_cache_size and the number of gemini_api_keys;
\* env_key tells whether the environment holds GEMINI_API_KEY.
DefaultSettings == [max_cache_size |-> 20, gemini_api_keys |-> 0, env_key |-> FALSE]

\* The settings files the service may start from.
SettingsChoices ==
    [max_cache_size : 0..MaxCacheSize, gemini_api_keys : 0..MaxKeys, env_key : BOOLEAN]

\* A request that has not called perform_core_search.
NoCall ==
    [ pc |-> "idle", results |-> 0, scraped |-> 0, llm_calls |-> 0, attempt |-> 0,
      outcome |-> "none", gemini |-> "none", response |-> "none", sources_used |-> 0 ]

\* The service before any request.
ServiceOff ==
    /\ settings = DefaultSettings
    /\ current_key_index = 0
    /\ search_cache = << >>
    /\ added = 0
    /\ calls = [t \in Requests |-> NoCall]

\* ---------------------------------------------------------------- inputs
RobotsFile(domain) == [status |-> 200, body |-> RobotsTxt(domain)]
RobotsFailure == [status |-> 404, body |-> << >>]

\* What the GET of a domain's robots.txt may bring: the file, or, for the
\* domains in `failing`, a failure (a status other than 200, or an exception).
RobotsResponses(domain, failing) ==
    {RobotsFile(domain)} \cup (IF domain \in failing THEN {RobotsFailure} ELSE {})

\* The policy _can_crawl_url caches for a response.
PolicyOf(response) ==
    IF response.status = 200 THEN ParseRobotsTxt(response.body) ELSE DefaultRules

\* Errors _mark_crawl_failed is called with by _crawl_url.
FetchErrors == {"HTTP", "content_too_large", "exception"}

\* Lists of URLs an administrator passes to add_seed_urls.
SeedLists(urls) == {<<u>> : u \in urls} \cup {<<u, v>> : u \in urls, v \in urls}

EmptyDict == [d \in {} |-> NULL]

\* dict.get(key, default)
Get(dict, key, default) == IF key \in DOMAIN dict THEN dict[key] ELSE default

\* dict[key] = value
Put(dict, key, value) == [k \in DOMAIN dict \cup {key} |-> IF k = key THEN value ELSE dict[k]]

\* No transaction is open on the connection of _store_page.
NoTxn == [open |-> FALSE, pages |-> {}, pages_fts |-> {}, page_seq |-> 0]

\* No page has been analysed.
NoAnalysis ==
    [ soup |-> [indicators |-> NoIndicators, features |-> NoFeatures],
      content_type |-> "none", quality_score |-> NULL ]

\* No search has been answered yet.
NoResponse ==
    [ state |-> "none", error |-> "none", results |-> << >>, total_results |-> 0,
      search_type |-> "none" ]

\* ------------------------------------------------------------------- Init
InitCrawl ==
    /\ now = 0
    /\ pages = {}
    /\ pages_fts = {}
    /\ page_seq = 0
    /\ pc = [e \in Engines |-> "new"]
    /\ cur = [e \in Engines |-> NoUrl]
    /\ sel = [e \in Engines |-> NoUrl]
    /\ wake = [e \in Engines |-> 0]
    /\ robots_cache = [e \in Engines |-> EmptyDict]
    /\ last_crawl_times = [e \in Engines |-> EmptyDict]
    /\ last_fetch = [d \in Domains |-> NULL]
    /\ txn = [e \in Engines |-> NoTxn]
    /\ session_closed = [e \in Engines |-> FALSE]
    /\ search_query = << >>
    /\ max_results = 0
    /\ search_response = NoResponse
    /\ images = {}
    /\ links = {}
    /\ cleanup_result = NoCleanup
    /\ reset_count = NULL

Init ==
    /\ InitCrawl
    /\ crawl_queue = {}
    /\ robots_txt = << >>
    /\ req_url = U_HOME
    /\ can_crawl = "unset"
    /\ analysis = NoAnalysis
    /\ ServiceOff

\* Every robots.txt of at most MaxRobotsLines lines.
RobotsFiles == UNION {[1..n -> RobotsLines] : n \in 0..MaxRobotsLines}

\* The parser check starts from any robots.txt and any URL.
InitRobots ==
    /\ InitCrawl
    /\ crawl_queue = {}
    /\ robots_txt \in RobotsFiles
    /\ req_url \in URLs
    /\ can_crawl = "unset"
    /\ analysis = NoAnalysis
    /\ ServiceOff

\* The queue as add_seed_urls may have left it before the engine starts.
InitFail ==
    /\ InitCrawl
    /\ robots_txt = << >>
    /\ req_url = U_HOME
    /\ can_crawl = "unset"
    /\ \E urls \in {<< >>} \cup SeedLists(URLs) :
          crawl_queue = EnqueueAll({}, urls, DEFAULT_PRIORITY, 0)
    /\ analysis = NoAnalysis
    /\ ServiceOff

\* ---------------------------------------------------------------- actions
\* The clock advances, up to `horizon`.
Tick(horizon) ==
    /\ now < horizon
    /\ now' = now + 1
    /\ UNCHANGED <<store_vars, task_vars, polite_vars, parser_vars, txn, session_closed, search_vars, media_vars, cleanup_result, analysis, reset_count, service_vars>>

\* initialize(): seeds the queue when it is empty, then starts the crawler.
Initialize(e) ==
    /\ pc[e] = "new"
    /\ crawl_queue' = IF crawl_queue = {}
                      THEN EnqueueAll(crawl_queue, seed_urls, SEED_PRIORITY, now)
                      ELSE crawl_queue
    /\ pc' = [pc EXCEPT ![e] = "idle"]
    /\ UNCHANGED <<now, pages, pages_fts, page_seq, cur, sel, wake, polite_vars, parser_vars, txn, session_closed, search_vars, media_vars, cleanup_result, analysis, reset_count, service_vars>>

\* _get_next_crawl_url() in the crawler of engine e, SELECT and UPDATE with
\* no await between them: one step of the event loop.
GetNextCrawlUrl(e) ==
    /\ pc[e] = "idle"
    /\ \E r \in NextCandidates(crawl_queue, now) :
        /\ crawl_queue' = MarkCrawling(crawl_queue, r.url, now)
        /\ cur' = [cur EXCEPT ![e] = r.url]
    /\ pc' = [pc EXCEPT ![e] = "robots"]
    /\ UNCHANGED <<now, pages, pages_fts, page_seq, sel, wake, polite_vars, parser_vars, txn, session_closed, search_vars, media_vars, cleanup_result, analysis, reset_count, service_vars>>

\* The SELECT of _get_next_crawl_url() on the connection of e: a statement
\* of its own, outside any transaction.
SelectNext(e) ==
    /\ pc[e] = "idle"
    /\ \E r \in NextCandidates(crawl_queue, now) :
        sel' = [sel EXCEPT ![e] = r.url]
    /\ pc' = [pc EXCEPT ![e] = "selected"]
    /\ UNCHANGED <<now, store_vars, cur, wake, polite_vars, parser_vars, txn, session_closed, search_vars, media_vars, cleanup_result, analysis, reset_count, service_vars>>

\* The UPDATE and commit of _get_next_crawl_url() on the connection of e,
\* and its return of the URL.
MarkSelected(e) ==
    /\ pc[e] = "selected"
    /\ crawl_queue' = MarkCrawling(crawl_queue, sel[e], now)
    /\ cur' = [cur EXCEPT ![e] = sel[e]]
    /\ sel' = [sel EXCEPT ![e] = NoUrl]
    /\ pc' = [pc EXCEPT ![e] = "robots"]
    /\ UNCHANGED <<now, pages, pages_fts, page_seq, wake, polite_vars, parser_vars, txn, session_closed, search_vars, media_vars, cleanup_result, analysis, reset_count, service_vars>>

\* The crawler of e is back at the top of its loop.
Release(e) ==
    /\ pc' = [pc EXCEPT ![e] = "idle"]
    /\ cur' = [cur EXCEPT ![e] = NoUrl]

\* The delay _respect_crawl_delay uses for a domain under a robots cache.
DelayFor(cache, domain) ==
    LET delay == Get(cache, domain, DefaultRules).delay
    IN  IF delay = NULL THEN crawl_delay ELSE delay

\* self.last_crawl_times[domain] = time.time(), and the GET that follows it.
StartFetch(e) ==
    /\ last_crawl_times' = [last_crawl_times EXCEPT
            ![e] = Put(last_crawl_times[e], netloc(cur[e]), now)]
    /\ last_fetch' = [last_fetch EXCEPT ![netloc(cur[e])] = now]
    /\ pc' = [pc EXCEPT ![e] = "fetching"]

\* _respect_crawl_delay(domain) under the robots cache `cache`: either no wait
\* is due and the GET is issued, or the task sleeps for the rest of the delay.
RespectCrawlDelay(e, cache) ==
    LET domain     == netloc(cur[e])
        last_crawl == Get(last_crawl_times[e], domain, NULL)
        delay      == DelayFor(cache, domain)
    IN  IF last_crawl # NULL /\ now - last_crawl < delay
        THEN /\ wake' = [wake EXCEPT ![e] = now + (delay - (now - last_crawl))]
             /\ pc' = [pc EXCEPT ![e] = "sleeping"]
             /\ UNCHANGED <<last_crawl_times, last_fetch>>
        ELSE /\ StartFetch(e)
             /\ UNCHANGED wake

\* What self.session.get brings for a domain's robots.txt: on a session that
\* cleanup() has closed the call raises.
SessionResponses(e, domain, failing) ==
    IF session_closed[e] THEN {RobotsFailure} ELSE RobotsResponses(domain, failing)

\* _crawl_url from the answer to the robots.txt request on: _can_crawl_url
\* caches the policy of the domain on first use; a blocked URL is marked
\* completed, an allowed one goes on to _respect_crawl_delay.
CrawlAfterRobots(e, response) ==
    LET domain == netloc(cur[e])
        cache  == IF domain \in DOMAIN robots_cache[e]
                  THEN robots_cache[e]
                  ELSE Put(robots_cache[e], domain, PolicyOf(response))
    IN  /\ robots_cache' = [robots_cache EXCEPT ![e] = cache]
        /\ IF PolicyAllows(cache[domain])
           THEN /\ RespectCrawlDelay(e, cache)
                /\ UNCHANGED <<crawl_queue, cur>>
           ELSE /\ crawl_queue' = MarkCrawlCompleted(crawl_queue, cur[e], "robots_blocked")
                /\ Release(e)
                /\ UNCHANGED <<wake, last_crawl_times, last_fetch>>

\* _crawl_url up to the GET of the page, with the servers of the universe.
CanCrawlUrl(e, failing) ==
    /\ pc[e] = "robots"
    /\ \E response \in SessionResponses(e, netloc(cur[e]), failing) :
          CrawlAfterRobots(e, response)
    /\ UNCHANGED <<now, pages, pages_fts, page_seq, sel, parser_vars, txn, session_closed, search_vars, media_vars, cleanup_result, analysis, reset_count, service_vars>>

\* _crawl_url up to the GET of the page, with a server that answers
\* robots_txt for /robots.txt.
CanCrawlUrlServed(e) ==
    /\ pc[e] = "robots"
    /\ CrawlAfterRobots(e, [status |-> 200, body |-> robots_txt])
    /\ UNCHANGED <<now, pages, pages_fts, page_seq, sel, parser_vars, txn, session_closed, search_vars, media_vars, cleanup_result, analysis, reset_count, service_vars>>

\* The asyncio.sleep of _respect_crawl_delay is over.
WakeUp(e) ==
    /\ pc[e] = "sleeping"
    /\ now >= wake[e]
    /\ StartFetch(e)
    /\ UNCHANGED <<now, store_vars, cur, sel, wake, robots_cache, parser_vars, txn, session_closed, search_vars, media_vars, cleanup_result, analysis, reset_count, service_vars>>

\* The GET ended with a status other than 200, an oversized body or an
\* exception (one of `errors`): _mark_crawl_failed.
FetchFailed(e, errors) ==
    /\ pc[e] = "fetching"
    /\ \E error \in (IF session_closed[e] THEN {"exception"} ELSE errors) :
        crawl_queue' = MarkCrawlFailed(crawl_queue, cur[e], error, now)
    /\ Release(e)
    /\ UNCHANGED <<now, pages, pages_fts, page_seq, sel, wake, polite_vars, parser_vars, txn, session_closed, search_vars, media_vars, cleanup_result, analysis, reset_count, service_vars>>

\* The GET brought something that is not text/html: _mark_crawl_completed.
FetchNotHtml(e) ==
    /\ pc[e] = "fetching"
    /\ ~session_closed[e]
    /\ crawl_queue' = MarkCrawlCompleted(crawl_queue, cur[e], "not_html")
    /\ Release(e)
    /\ UNCHANGED <<now, pages, pages_fts, page_seq, sel, wake, polite_vars, parser_vars, txn, session_closed, search_vars, media_vars, cleanup_result, analysis, reset_count, service_vars>>

\* The GET brought an HTML page, one of `docs`: _process_page (_store_page,
\* _extract_images, _extract_links) and _mark_crawl_completed, with no await that suspends
\* between them.
FetchPage(e, docs) ==
    /\ pc[e] = "fetching"
    /\ ~session_closed[e]
    /\ \E doc \in docs :
        LET url == cur[e]
            id  == page_seq + 1
        IN  /\ page_seq' = id
            /\ pages' = InsertOrReplacePage(pages, NewPageRow(id, url, doc, now))
            /\ pages_fts' = InsertOrReplaceFts(pages_fts, id, doc.title, doc.content)
            /\ images' = ExtractImages(images, id, ImagesOf(url))
            /\ crawl_queue' = MarkCrawlCompleted(
                   ExtractLinks(crawl_queue, pages', LinksOf(url), netloc(url), now),
                   url, "completed")
    /\ Release(e)
    /\ UNCHANGED <<now, sel, wake, polite_vars, parser_vars, txn, session_closed, search_vars, links, cleanup_result, analysis, reset_count, service_vars>>

\* The GET brought an HTML page and _process_page raised before anything was
\* written (parsing, extraction, classification, or the first statement of
\* _store_page): its except clause logs, and _crawl_url goes on to
\* _mark_crawl_completed.
ProcessPageFailed(e) ==
    /\ pc[e] = "fetching"
    /\ ~session_closed[e]
    /\ crawl_queue' = MarkCrawlCompleted(crawl_queue, cur[e], "completed")
    /\ Release(e)
    /\ UNCHANGED <<now, pages, pages_fts, page_seq, sel, wake, polite_vars, parser_vars,
                   txn, session_closed, search_vars, media_vars, cleanup_result, analysis, reset_count, service_vars>>

\* Mutant: the statements are committed one by one.
OnCloseKeep(committed, staged) == staged

\* conn.close() of the finally clause with no conn.commit() before it: what
\* the store holds afterwards, given what was committed and what was staged.
OnClose(committed, staged) == committed

\* _store_page, first statement: INSERT OR REPLACE INTO pages, staged in the
\* transaction sqlite3 opens before it.
StorePageRow(e, docs) ==
    /\ pc[e] = "fetching"
    /\ ~session_closed[e]
    /\ \E doc \in docs :
        LET id == page_seq + 1
        IN  txn' = [txn EXCEPT ![e] =
                      [ open |-> TRUE,
                        pages |-> InsertOrReplacePage(pages, NewPageRow(id, cur[e], doc, now)),
                        pages_fts |-> pages_fts,
                        page_seq |-> id ]]
    /\ pc' = [pc EXCEPT ![e] = "storing"]
    /\ UNCHANGED <<now, store_vars, cur, sel, wake, polite_vars, parser_vars,
                   session_closed, search_vars, media_vars, cleanup_result, analysis, reset_count, service_vars>>

\* _store_page, second statement: INSERT OR REPLACE INTO pages_fts at
\* cursor.lastrowid, staged in the same transaction.
StoreIndexRow(e) ==
    /\ pc[e] = "storing"
    /\ LET id  == txn[e].page_seq
           row == CHOOSE p \in txn[e].pages : p.id = id
       IN  txn' = [txn EXCEPT ![e].pages_fts =
                      InsertOrReplaceFts(@, id, row.title, row.content)]
    /\ pc' = [pc EXCEPT ![e] = "indexed"]
    /\ UNCHANGED <<now, store_vars, cur, sel, wake, polite_vars, parser_vars,
                   session_closed, search_vars, media_vars, cleanup_result, analysis, reset_count, service_vars>>

\* _store_page: conn.commit(); then the rest of _process_page
\* (_extract_images, _extract_links) and _mark_crawl_completed.
StoreCommit(e) ==
    /\ pc[e] = "indexed"
    /\ pages' = txn[e].pages
    /\ pages_fts' = txn[e].pages_fts
    /\ page_seq' = txn[e].page_seq
    /\ images' = ExtractImages(images, txn[e].page_seq, ImagesOf(cur[e]))
    /\ crawl_queue' = MarkCrawlCompleted(
           ExtractLinks(crawl_queue, pages', LinksOf(cur[e]), netloc(cur[e]), now),
           cur[e], "completed")
    /\ txn' = [txn EXCEPT ![e] = NoTxn]
    /\ Release(e)
    /\ UNCHANGED <<now, sel, wake, polite_vars, parser_vars, session_closed, search_vars, links, cleanup_result, analysis, reset_count, service_vars>>

\* _store_page: the index statement or the commit raises (sqlite3.Error);
\* the finally clause closes the connection, _process_page logs the
\* exception and _crawl_url goes on to _mark_crawl_completed.
StoreFailed(e) ==
    /\ pc[e] \in {"storing", "indexed"}
    /\ pages' = OnClose(pages, txn[e].pages)
    /\ pages_fts' = OnClose(pages_fts, txn[e].pages_fts)
    /\ page_seq' = OnClose(page_seq, txn[e].page_seq)
    /\ crawl_queue' = MarkCrawlCompleted(crawl_queue, cur[e], "completed")
    /\ txn' = [txn EXCEPT ![e] = NoTxn]
    /\ Release(e)
    /\ UNCHANGED <<now, sel, wake, polite_vars, parser_vars, session_closed, search_vars, media_vars, cleanup_result, analysis, reset_count, service_vars>>

\* Mutant: the loop ends with the exception.
AfterCrawlerErrorStop == "stopped"

\* Where the crawler is after the except clause of _background_crawler has
\* logged the exception and slept: at the top of its while loop.
AfterCrawlerError == "idle"

\* _mark_crawl_failed or _mark_crawl_completed raises (a storage error) and
\* the exception leaves _crawl_url: the queue row stays as it is.
StorageError(e) ==
    /\ pc[e] = "fetching"
    /\ pc' = [pc EXCEPT ![e] = "raised"]
    /\ UNCHANGED <<now, store_vars, cur, sel, wake, polite_vars, parser_vars,
                   txn, session_closed, search_vars, media_vars, cleanup_result, analysis, reset_count, service_vars>>

\* The except clause of _background_crawler: log, sleep, next iteration.
CatchCrawlerError(e) ==
    /\ pc[e] = "raised"
    /\ pc' = [pc EXCEPT ![e] = AfterCrawlerError]
    /\ cur' = [cur EXCEPT ![e] = NoUrl]
    /\ UNCHANGED <<now, store_vars, sel, wake, polite_vars, parser_vars,
                   txn, session_closed, search_vars, media_vars, cleanup_result, analysis, reset_count, service_vars>>

\* cleanup(): closes self.session; the crawler task is left running.
Cleanup(e) ==
    /\ pc[e] # "new"
    /\ ~session_closed[e]
    /\ session_closed' = [session_closed EXCEPT ![e] = TRUE]
    /\ UNCHANGED <<now, store_vars, task_vars, polite_vars, parser_vars, txn, search_vars, media_vars, cleanup_result, analysis, reset_count, service_vars>>

\* ------------------------------------------------------------------ search
\* The tokens the unicode61 tokenizer of FTS5 makes of a text, case folded.
Tokens(text) ==
    CASE text = "Python Guide"    -> {"python", "guide"}
      [] text = "Python is great" -> {"python", "is", "great"}
      [] text = "Python News"     -> {"python", "news"}
      [] text = "Python released" -> {"python", "released"}
      [] OTHER                    -> {}

\* The token of a query term: FTS5 folds the case of a quoted string too.
Fold(term) ==
    CASE term = "Python" -> "python"
      [] OTHER           -> term

\* Queries, as the terms query.split() gives after the punctuation is removed.
Queries == {<<"is">>, <<"Python">>, <<"news", "is">>, <<"rust">>}

\* Mutant: every term is kept.
PrepareFtsQueryAll(terms) == terms

\* _prepare_fts_query(query): the terms longer than 2 characters, each quoted,
\* joined by OR; here the sequence of the terms kept.
PrepareFtsQuery(terms) == SelectSeq(terms, LAMBDA term : Len(term) > 2)

\* pages_fts MATCH fts_query, for one index entry.
FtsMatch(f, fts_query) ==
    \E i \in 1..Len(fts_query) :
        Fold(fts_query[i]) \in Tokens(f.title) \cup Tokens(f.content)

\* FROM pages_fts JOIN pages p ON pages_fts.rowid = p.id WHERE pages_fts MATCH ?
JoinRows(fts_query) ==
    {fp \in pages_fts \X pages : fp[1].rowid = fp[2].id /\ FtsMatch(fp[1], fts_query)}

\* SELECT COUNT(*) FROM pages_fts WHERE pages_fts MATCH ?
MatchCount(fts_query) == Cardinality({f \in pages_fts : FtsMatch(f, fts_query)})

\* The rows one SELECT ... ORDER BY ... LIMIT n may return: n of the joined
\* rows (all of them when there are fewer), in some order.
LimitedRows(rows, n) ==
    LET k == IF Cardinality(rows) < n THEN Cardinality(rows) ELSE n
    IN  {order \in [1..k -> rows] : \A i, j \in 1..k : order[i] = order[j] => i = j}

\* Occurrences of a query term in the indexed columns of one entry; no text of
\* the universe holds a token twice.
TermFrequency(f, term) ==
    (IF Fold(term) \in Tokens(f.title) THEN 1 ELSE 0)
        + (IF Fold(term) \in Tokens(f.content) THEN 1 ELSE 0)

\* Tokens of the indexed columns of one entry.
DocLength(f) == Cardinality(Tokens(f.title)) + Cardinality(Tokens(f.content))

RECURSIVE SumOver(_, _)
SumOver(weight, terms) ==
    IF terms = << >> THEN 0 ELSE weight[Head(terms)] + SumOver(weight, Tail(terms))

\* bm25(pages_fts): SQLite returns a negative number, the more negative the
\* better the match (more occurrences of the terms, fewer tokens in the entry).
\* Integers stand for it: per term, frequency against frequency plus length.
Bm25(f, fts_query) ==
    0 - SumOver([term \in {fts_query[i] : i \in DOMAIN fts_query} |->
                    (100 * TermFrequency(f, term)) \div (TermFrequency(f, term) + DocLength(f))],
                fts_query)

\* bm25(pages_fts) * (1 + p.page_rank) * p.quality_score, of one joined row.
OrderKey(fp, fts_query) == Bm25(fp[1], fts_query) * (1 + fp[2].page_rank) * fp[2].quality_score

\* ORDER BY <key> DESC LIMIT n: the n rows of the largest key, largest first;
\* SQL leaves the order of rows of equal key open.
RankedRows(rows, n, fts_query) ==
    {order \in LimitedRows(rows, n) :
        /\ \A i, j \in DOMAIN order :
              i < j => OrderKey(order[i], fts_query) >= OrderKey(order[j], fts_query)
        /\ \A i \in DOMAIN order : \A fp \in rows :
              (\A j \in DOMAIN order : order[j] # fp)
                  => OrderKey(order[i], fts_query) >= OrderKey(fp, fts_query)}

\* What search() returns from its except clause: the exception is logged.
FailedResponse(error) ==
    [ state |-> "returned", error |-> error, results |-> << >>, total_results |-> 0,
      search_type |-> "web" ]

\* search(query, max_results, "web"): _search_web, and the except clause of
\* search when MATCH rejects an empty expression.
SearchWeb(queries, limits) ==
    /\ \E terms \in queries, n \in limits :
        LET fts_query == PrepareFtsQuery(terms)
        IN  /\ search_query' = terms
            /\ max_results' = n
            /\ IF fts_query = << >>
               THEN search_response' = FailedResponse("fts5: syntax error")
               ELSE \E order \in RankedRows(JoinRows(fts_query), n, fts_query) :
                      search_response' =
                          [ state |-> "returned", error |-> "none",
                            results |-> [i \in DOMAIN order |-> order[i][2].url],
                            total_results |-> MatchCount(fts_query),
                            search_type |-> "web" ]
    /\ UNCHANGED <<now, store_vars, task_vars, polite_vars, parser_vars, txn, session_closed,
                   media_vars, cleanup_result, analysis, reset_count, service_vars>>

\* _search_web in a process of its own, first statement: the SELECT of the
\* result rows. sqlite3 opens no transaction for a SELECT, so the statement
\* reads the store as committed at this moment.
SearchWebSelect(queries, limits) ==
    /\ search_response.state # "counting"
    /\ \E terms \in queries, n \in limits :
        LET fts_query == PrepareFtsQuery(terms)
        IN  /\ search_query' = terms
            /\ max_results' = n
            /\ IF fts_query = << >>
               THEN search_response' = FailedResponse("fts5: syntax error")
               ELSE \E order \in RankedRows(JoinRows(fts_query), n, fts_query) :
                      search_response' =
                          [ state |-> "counting", error |-> "none",
                            results |-> [i \in DOMAIN order |-> order[i][2].url],
                            total_results |-> 0,
                            search_type |-> "web" ]
    /\ UNCHANGED <<now, store_vars, task_vars, polite_vars, parser_vars, txn, session_closed,
                   media_vars, cleanup_result, analysis, reset_count, service_vars>>

\* _search_web, second statement: SELECT COUNT(*) on the index as committed
\* at this moment, and the return of the response.
SearchWebCount ==
    /\ search_response.state = "counting"
    /\ search_response' =
           [search_response EXCEPT
               !.state = "returned",
               !.total_results = MatchCount(PrepareFtsQuery(search_query))]
    /\ UNCHANGED <<now, store_vars, task_vars, polite_vars, parser_vars, txn, session_closed,
                   search_query, max_results, media_vars, cleanup_result, analysis, reset_count, service_vars>>

\* p.domain LIKE '%news%' OR ... '%bbc%' OR ... '%reuters%' OR ... '%guardian%',
\* on the domains of the universe.
IsNewsDomain(domain) == domain \in {"news.b.org", "bbc.com"}

\* Mutant: the rows of both SELECTs of _search_news.
NewsRowsBoth(fts_query) ==
    {fp \in JoinRows(fts_query) :
        fp[2].content_type = "news" \/ IsNewsDomain(fp[2].domain)}

\* The rows _search_news chooses from: those of content_type 'news', and only
\* if the first SELECT returns none (max_results is at least 1) those of a
\* news domain.
NewsRows(fts_query) ==
    LET news == {fp \in JoinRows(fts_query) : fp[2].content_type = "news"}
    IN  IF news # {} THEN news
        ELSE {fp \in JoinRows(fts_query) : IsNewsDomain(fp[2].domain)}

\* ORDER BY p.crawl_timestamp DESC, bm25(pages_fts) * (1 + p.page_rank) DESC:
\* row a may come before row b.
NewsPrecedes(a, b, fts_query) ==
    \/ a[2].crawl_timestamp > b[2].crawl_timestamp
    \/ /\ a[2].crawl_timestamp = b[2].crawl_timestamp
       /\ Bm25(a[1], fts_query) * (1 + a[2].page_rank)
             >= Bm25(b[1], fts_query) * (1 + b[2].page_rank)

\* The rows one SELECT of _search_news returns, in order.
RankedNews(rows, n, fts_query) ==
    {order \in LimitedRows(rows, n) :
        /\ \A i, j \in DOMAIN order : i < j => NewsPrecedes(order[i], order[j], fts_query)
        /\ \A i \in DOMAIN order : \A fp \in rows :
              (\A j \in DOMAIN order : order[j] # fp)
                  => NewsPrecedes(order[i], fp, fts_query)}

\* search(query, max_results, "news"): _search_news, and the except clause of
\* search when MATCH rejects an empty expression.
SearchNews(queries, limits) ==
    /\ \E terms \in queries, n \in limits :
        LET fts_query == PrepareFtsQuery(terms)
        IN  /\ search_query' = terms
            /\ max_results' = n
            /\ IF fts_query = << >>
               THEN search_response' =
                        [FailedResponse("fts5: syntax error") EXCEPT !.search_type = "news"]
               ELSE \E order \in RankedNews(NewsRows(fts_query), n, fts_query) :
                      search_response' =
                          [ state |-> "returned", error |-> "none",
                            results |-> [i \in DOMAIN order |-> order[i][2].url],
                            total_results |-> Len(order),
                            search_type |-> "news" ]
    /\ UNCHANGED <<now, store_vars, task_vars, polite_vars, parser_vars, txn, session_closed,
                   media_vars, cleanup_result, analysis, reset_count, service_vars>>

\* search(query, max_results, "web") when the store cannot be read
\* (sqlite3.connect or execute raises): the except clause of search.
SearchUnavailable(queries, limits) ==
    /\ \E terms \in queries, n \in limits :
        /\ search_query' = terms
        /\ max_results' = n
        /\ search_response' = FailedResponse("store")
    /\ UNCHANGED <<now, store_vars, task_vars, polite_vars, parser_vars, txn, session_closed,
                   media_vars, cleanup_result, analysis, reset_count, service_vars>>

\* DatabaseInitializer.add_seed_urls(urls, priority)
AddSeedUrls(lists, priorities) ==
    /\ \E urls \in lists, priority \in priorities :
        crawl_queue' = EnqueueAll(crawl_queue, urls, priority, now)
    /\ UNCHANGED <<now, pages, pages_fts, page_seq, task_vars, polite_vars, parser_vars, txn, session_closed, search_vars, media_vars, cleanup_result, analysis, reset_count, service_vars>>

\* DatabaseInitializer.reset_failed_crawls()
ResetFailedCrawls ==
    /\ crawl_queue' = ResetFailed(crawl_queue, now)
    /\ reset_count' = Cardinality({r \in crawl_queue : Resettable(r)})
    /\ UNCHANGED <<now, pages, pages_fts, page_seq, task_vars, polite_vars, parser_vars, txn, session_closed, search_vars, media_vars, cleanup_result, analysis, service_vars>>

\* DatabaseInitializer.cleanup_old_data(days_old): the DELETEs and the rebuild
\* of the index run in the transaction that the first DELETE opens; VACUUM
\* cannot run inside a transaction and raises, and the finally clause closes
\* the connection without a commit.
CleanupOldData(days) ==
    /\ \E days_old \in days :
        LET kept == {p \in pages : ~LowValue(p, days_old, now)}
            ids  == {p.id : p \in kept}
        IN  /\ pages' = OnClose(pages, kept)
            /\ links' = OnClose(links, {l \in links : l.from_page_id \in ids})
            /\ images' = OnClose(images, {i \in images : i.page_id \in ids})
            /\ pages_fts' = OnClose(pages_fts, RebuildFts(kept))
            /\ crawl_queue' = OnClose(crawl_queue, {r \in crawl_queue : ~Expired(r, now)})
            /\ cleanup_result' = [state |-> "raised", days_old |-> days_old]
    /\ UNCHANGED <<now, page_seq, task_vars, polite_vars, parser_vars, txn, session_closed,
                   search_vars, analysis, reset_count, service_vars>>

\* ------------------------------------------------- actions of the service
\* What perform_core_search and its callees leave alone.
engine_vars == <<now, store_vars, task_vars, polite_vars, parser_vars, txn, session_closed,
                 search_vars, media_vars, cleanup_result, analysis, reset_count>>

\* Mutant: the backend is taken to have found something.
HasResultsAlways(results) == TRUE

\* `if not results` of perform_core_search, negated: the list is not empty.
HasResults(results) == results > 0

\* Mutant: the index is not wrapped.
AdvanceApiKeyUnwrapped(index, key_count) == index + 1

\* SettingsManager.advance_api_key(): the index that follows.
AdvanceApiKey(index, key_count) ==
    (index + 1) % (IF key_count > 1 THEN key_count ELSE 1)

RECURSIVE PopWhileOver(_, _)
\* while len(self.cache) > max_size: self.cache.pop()
PopWhileOver(cache, max_size) ==
    IF Len(cache) > max_size
    THEN PopWhileOver(SubSeq(cache, 1, Len(cache) - 1), max_size)
    ELSE cache

\* Mutant: the entry is appended on the right.
CacheAddRight(cache, entry, max_size) == PopWhileOver(cache \o <<entry>>, max_size)

\* SearchCache.add: appendleft, then the eviction loop.
CacheAdd(cache, entry, max_size) == PopWhileOver(<<entry>> \o cache, max_size)

\* perform_core_search, from the summary to the return: the key index
\* advances if keys are configured, the entry is cached, the dict returned.
Finish(t, call, summary) ==
    /\ current_key_index' =
          IF settings.gemini_api_keys > 0
          THEN AdvanceApiKey(current_key_index, settings.gemini_api_keys)
          ELSE current_key_index
    /\ search_cache' = CacheAdd(search_cache, [id |-> added + 1, query |-> t],
                                settings.max_cache_size)
    /\ added' = added + 1
    /\ calls' = [calls EXCEPT ![t] =
            [call EXCEPT !.pc = "done", !.response = summary,
                         !.sources_used = call.results]]

\* The except clause of perform_core_search: the error is returned as the
\* summary, with sources_used 0.
Fail(t, call) ==
    /\ calls' = [calls EXCEPT ![t] =
            [call EXCEPT !.pc = "done", !.response = "error", !.sources_used = 0]]
    /\ UNCHANGED <<current_key_index, search_cache, added>>

\* perform_core_search(query, mode_str) is called and awaits the backend
\* search in the executor.
PerformCoreSearch(t) ==
    /\ calls[t].pc \in {"idle", "done"}
    /\ added < MaxAdds
    /\ calls' = [calls EXCEPT ![t] = [NoCall EXCEPT !.pc = "searching"]]
    /\ UNCHANGED <<engine_vars, settings, current_key_index, search_cache, added>>

\* The backend search returns its list, or raises.
SearchReturns(t) ==
    /\ calls[t].pc = "searching"
    /\ \/ \E results \in 0..MaxResults :
            calls' = [calls EXCEPT ![t] =
                IF HasResults(results)
                THEN [@ EXCEPT !.pc = "scraping", !.results = results]
                ELSE [@ EXCEPT !.pc = "done", !.response = "no_results",
                               !.sources_used = 0]]
       \/ calls' = [calls EXCEPT ![t] =
                [@ EXCEPT !.pc = "done", !.response = "error", !.sources_used = 0]]
    /\ UNCHANGED <<engine_vars, settings, current_key_index, search_cache, added>>

\* asyncio.gather of scrape_webpage_content returns; the model is built from
\* the current key, or from the key of the environment, and called; without
\* a key the summary is made of the snippets.
Scraped(t) ==
    /\ calls[t].pc = "scraping"
    /\ LET call == [calls[t] EXCEPT !.scraped = calls[t].results]
       IN  IF settings.gemini_api_keys > 0 \/ settings.env_key
           THEN /\ calls' = [calls EXCEPT ![t] = [call EXCEPT !.pc = "calling"]]
                /\ UNCHANGED <<current_key_index, search_cache, added>>
           ELSE Finish(t, call, "snippets")
    /\ UNCHANGED <<engine_vars, settings>>

\* call_gemini_with_retry: the end of an attempt that failed with a rate
\* limit; the loop goes on, or ends with 'Max retries exceeded'.
NextAttempt(t, call) ==
    LET c == [call EXCEPT !.attempt = call.attempt + 1]
    IN  IF c.attempt < max_retries
        THEN calls' = [calls EXCEPT ![t] = [c EXCEPT !.pc = "calling"]]
        ELSE calls' = [calls EXCEPT ![t] =
                 [c EXCEPT !.pc = "done", !.gemini = "raised", !.response = "error",
                           !.sources_used = 0]]

\* call_gemini_with_retry: one model call returns or raises; the model of the
\* next key is configured without an error.
ModelCall(t) ==
    /\ calls[t].pc = "calling"
    /\ \E outcome \in {"ok", "TooManyRequests", "ServiceUnavailable", "other"} :
        LET call == [calls[t] EXCEPT !.llm_calls = calls[t].llm_calls + 1,
                                     !.outcome = outcome]
        IN  CASE outcome = "ok" ->
                   Finish(t, [call EXCEPT !.gemini = "returned"], "model")
              [] outcome = "other" ->
                   Fail(t, [call EXCEPT !.gemini = "raised"])
              [] OTHER ->
                   IF settings.gemini_api_keys > 1
                   THEN /\ current_key_index' =
                              AdvanceApiKey(current_key_index, settings.gemini_api_keys)
                        /\ NextAttempt(t, call)
                        /\ UNCHANGED <<search_cache, added>>
                   ELSE /\ calls' = [calls EXCEPT ![t] = [call EXCEPT !.pc = "backoff"]]
                        /\ UNCHANGED <<current_key_index, search_cache, added>>
    /\ UNCHANGED <<engine_vars, settings>>

\* call_gemini_with_retry with a single key: asyncio.sleep(2 ** attempt) ends.
BackoffEnds(t) ==
    /\ calls[t].pc = "backoff"
    /\ NextAttempt(t, calls[t])
    /\ UNCHANGED <<engine_vars, settings, current_key_index, search_cache, added>>

\* The service starts from any settings file, with nothing cached.
InitService ==
    /\ InitCrawl
    /\ crawl_queue = {}
    /\ robots_txt = << >>
    /\ req_url = U_HOME
    /\ can_crawl = "unset"
    /\ analysis = NoAnalysis
    /\ settings \in SettingsChoices
    /\ current_key_index = 0
    /\ search_cache = << >>
    /\ added = 0
    /\ calls = [t \in Requests |-> NoCall]

\* Requests served concurrently by one event loop.
NextService ==
    \E t \in Requests :
        \/ PerformCoreSearch(t)
        \/ SearchReturns(t)
        \/ Scraped(t)
        \/ ModelCall(t)
        \/ BackoffEnds(t)

SpecService == InitService /\ [][NextService]_vars

\* ---------------------------------------------------------- specifications
\* One engine and the administrator over the whole retry cycle of an entry.
Next ==
    \/ Tick(MaxTime)
    \/ AddSeedUrls(SeedLists({U_HOME, U_PRIV}), {DEFAULT_PRIORITY})
    \/ ResetFailedCrawls
    \/ \E e \in {"e1"} :
        \/ Initialize(e)
        \/ GetNextCrawlUrl(e)
        \/ CanCrawlUrl(e, {})
        \/ WakeUp(e)
        \/ FetchFailed(e, FetchErrors)
        \/ FetchNotHtml(e)
        \/ FetchPage(e, {d \in Docs : d.quality < LOW_QUALITY})

Spec == Init /\ [][Next]_vars

\* One engine that stores pages of low quality, and the administrator, who
\* cleans up with a retention of one or two units of time.
NextCleanup ==
    \/ Tick(MaxTime)
    \/ CleanupOldData({1, 2})
    \/ \E e \in {"e1"} :
        \/ Initialize(e)
        \/ GetNextCrawlUrl(e)
        \/ CanCrawlUrl(e, {})
        \/ FetchPage(e, Docs)

SpecCleanup == Init /\ [][NextCleanup]_vars

\* One engine that crawls, and a searcher in another process whose two
\* statements interleave with the commits of the crawler.
NextSnapshot ==
    \/ AddSeedUrls({<<U_NEWS>>}, {DEFAULT_PRIORITY})
    \/ SearchWebSelect(Queries, {1, 2})
    \/ SearchWebCount
    \/ \E e \in {"e1"} :
        \/ Initialize(e)
        \/ GetNextCrawlUrl(e)
        \/ CanCrawlUrl(e, {})
        \/ FetchPage(e, Docs)

SpecSnapshot == Init /\ [][NextSnapshot]_vars

\* One engine and the administrator, with every document and with robots.txt
\* requests that may fail.
NextStore ==
    \/ Tick(MaxTimeStore)
    \/ AddSeedUrls(SeedLists({U_HOME, U_PRIV}), {DEFAULT_PRIORITY})
    \/ \E e \in {"e1"} :
        \/ Initialize(e)
        \/ GetNextCrawlUrl(e)
        \/ CanCrawlUrl(e, {"a.com"})
        \/ WakeUp(e)
        \/ FetchFailed(e, {"HTTP"})
        \/ FetchNotHtml(e)
        \/ FetchPage(e, Docs)

SpecStore == Init /\ [][NextStore]_vars

\* Two engines on one store, as tasks of one event loop.
NextPair ==
    \/ Tick(MaxTimePair)
    \/ AddSeedUrls(SeedLists({U_PRIV}), {DEFAULT_PRIORITY})
    \/ \E e \in Engines :
        \/ Initialize(e)
        \/ GetNextCrawlUrl(e)
        \/ CanCrawlUrl(e, {"a.com"})
        \/ WakeUp(e)
        \/ FetchFailed(e, {"HTTP"})
        \/ FetchNotHtml(e)
        \/ FetchPage(e, Docs)

SpecPair == Init /\ [][NextPair]_vars

\* Two engines on one store, as processes: each statement of
\* _get_next_crawl_url is a step of its connection.
NextConn ==
    \/ Tick(MaxTimePair)
    \/ AddSeedUrls(SeedLists({U_PRIV}), {DEFAULT_PRIORITY})
    \/ \E e \in Engines :
        \/ Initialize(e)
        \/ SelectNext(e)
        \/ MarkSelected(e)
        \/ CanCrawlUrl(e, {})
        \/ WakeUp(e)
        \/ FetchFailed(e, {"HTTP"})
        \/ FetchNotHtml(e)
        \/ FetchPage(e, {d \in Docs : d.quality < LOW_QUALITY})

SpecConn == Init /\ [][NextConn]_vars

\* One engine, its retries and reset_failed_crawls over a longer time.
NextRetry ==
    \/ Tick(MaxTimeRetry)
    \/ ResetFailedCrawls
    \/ \E e \in {"e1"} :
        \/ Initialize(e)
        \/ GetNextCrawlUrl(e)
        \/ CanCrawlUrl(e, {"a.com"})
        \/ WakeUp(e)
        \/ FetchFailed(e, FetchErrors)
        \/ FetchNotHtml(e)
        \/ FetchPage(e, {d \in Docs : d.quality < LOW_QUALITY})

SpecRetry == Init /\ [][NextRetry]_vars

\* _can_crawl_url(req_url) when the domain's robots.txt request brings
\* robots_txt with status 200.
AskCanCrawl ==
    /\ can_crawl = "unset"
    /\ can_crawl' = IF PolicyAllows(PolicyOf([status |-> 200, body |-> robots_txt]))
                    THEN "yes" ELSE "no"
    /\ UNCHANGED <<now, store_vars, task_vars, polite_vars, robots_txt, req_url,
                   txn, session_closed, search_vars, media_vars, cleanup_result, analysis, reset_count, service_vars>>

NextRobots == AskCanCrawl

SpecRobots == InitRobots /\ [][NextRobots]_vars

\* One engine whose _store_page runs statement by statement and may fail,
\* with robots.txt requests that may fail.
NextTxn ==
    \/ Tick(MaxTimeStore)
    \/ \E e \in {"e1"} :
        \/ Initialize(e)
        \/ GetNextCrawlUrl(e)
        \/ CanCrawlUrl(e, {"a.com", "github.com"})
        \/ WakeUp(e)
        \/ FetchFailed(e, {"HTTP"})
        \/ StorePageRow(e, Docs)
        \/ StoreIndexRow(e)
        \/ StoreCommit(e)
        \/ StoreFailed(e)

SpecTxn == Init /\ [][NextTxn]_vars

\* The crawler of e is in one of its asyncio.sleep calls: the rest of a crawl
\* delay, or the pause after _get_next_crawl_url returned None.
Sleeping(e) ==
    \/ pc[e] = "sleeping" /\ now < wake[e]
    \/ pc[e] = "idle" /\ NextCandidates(crawl_queue, now) = {}

\* The clock advances while the crawlers of `engines` sleep: their other
\* steps take no time.
TickAsleep(horizon, engines) ==
    /\ \A e \in engines : Sleeping(e)
    /\ Tick(horizon)

\* One engine on a queue that no one adds to, every GET failing, under a
\* fair scheduler: the crawler task runs whenever it can.
NextFail ==
    \/ TickAsleep(MaxTimeFail, {"e1"})
    \/ \E e \in {"e1"} :
        \/ Initialize(e)
        \/ GetNextCrawlUrl(e)
        \/ CanCrawlUrl(e, {"a.com", "github.com"})
        \/ WakeUp(e)
        \/ FetchFailed(e, FetchErrors)

SpecFail == InitFail /\ [][NextFail]_vars /\ WF_vars(NextFail)

\* One engine whose iterations may fail in every way the crawler handles,
\* and whose owner may call cleanup().
NextErr ==
    \/ Tick(MaxTimeStore)
    \/ AddSeedUrls(SeedLists({U_PRIV}), {DEFAULT_PRIORITY})
    \/ \E e \in {"e1"} :
        \/ Initialize(e)
        \/ GetNextCrawlUrl(e)
        \/ CanCrawlUrl(e, {})
        \/ WakeUp(e)
        \/ FetchFailed(e, {"HTTP"})
        \/ FetchNotHtml(e)
        \/ FetchPage(e, {d \in Docs : d.quality < LOW_QUALITY})
        \/ ProcessPageFailed(e)
        \/ StorageError(e)
        \/ CatchCrawlerError(e)
        \/ Cleanup(e)

\* The except clause of _background_crawler runs whenever an exception
\* reaches it, and its sleep ends.
SpecErr == Init /\ [][NextErr]_vars /\ WF_vars(CatchCrawlerError("e1"))

\* One engine, the administrator and a searcher: two pages are crawled and
\* searched.
NextSearch ==
    \/ Tick(MaxTimeStore)
    \/ AddSeedUrls({<<U_HOME, U_PRIV>>}, {DEFAULT_PRIORITY})
    \/ SearchWeb(Queries, {1, 2})
    \/ SearchUnavailable(Queries, {1, 2})
    \/ \E e \in {"e1"} :
        \/ Initialize(e)
        \/ GetNextCrawlUrl(e)
        \/ CanCrawlUrl(e, {})
        \/ WakeUp(e)
        \/ FetchPage(e, Docs)

SpecSearch == Init /\ [][NextSearch]_vars

\* Two engines on one store as processes, and a searcher: the seed can be
\* claimed, fetched and stored by both.
NextSearchRace ==
    \/ SearchWeb(Queries, {1, 2})
    \/ SearchUnavailable(Queries, {1, 2})
    \/ \E e \in Engines :
        \/ Initialize(e)
        \/ SelectNext(e)
        \/ MarkSelected(e)
        \/ CanCrawlUrl(e, {})
        \/ FetchPage(e, Docs)

SpecSearchRace == Init /\ [][NextSearchRace]_vars

\* _process_page on the parsed page analysis.soup: the content type and the
\* quality score handed to _store_page.
AnalyzePage ==
    /\ analysis.content_type = "none"
    /\ analysis' = [analysis EXCEPT
            !.content_type = ClassifyContent(analysis.soup.indicators),
            !.quality_score = CalculateQualityScore(analysis.soup.features)]
    /\ UNCHANGED <<now, store_vars, task_vars, polite_vars, parser_vars, txn, session_closed,
                   search_vars, media_vars, cleanup_result, reset_count, service_vars>>

\* The document whose parsed form is analysis.soup, once analysed.
AnalyzedDocs ==
    IF analysis.content_type = "none" THEN {}
    ELSE {[title |-> "Python Guide", content |-> "Python is great",
           quality |-> analysis.quality_score]}

InitAnalysis ==
    /\ InitCrawl
    /\ crawl_queue = {}
    /\ robots_txt = << >>
    /\ req_url = U_HOME
    /\ can_crawl = "unset"
    /\ analysis \in {[NoAnalysis EXCEPT !.soup = soup] : soup \in Soups}
    /\ ServiceOff

\* One engine that fetches the seed, whose page parses to any of Soups.
NextAnalysis ==
    \/ AnalyzePage
    \/ \E e \in {"e1"} :
        \/ Initialize(e)
        \/ GetNextCrawlUrl(e)
        \/ CanCrawlUrl(e, {})
        \/ FetchPage(e, AnalyzedDocs)

SpecAnalysis == InitAnalysis /\ [][NextAnalysis]_vars

\* Queries of the news searches.
NewsQueries == {<<"Python">>, <<"guide">>, <<"is">>}

\* One engine, the administrator and a searcher for news: pages of a.com and
\* of two news sites are crawled and searched.
NextNews ==
    \/ Tick(MaxTimePair)
    \/ AddSeedUrls({<<U_NEWS, U_BBC>>}, {DEFAULT_PRIORITY})
    \/ SearchNews(NewsQueries, {1, 2})
    \/ \E e \in {"e1"} :
        \/ Initialize(e)
        \/ GetNextCrawlUrl(e)
        \/ CanCrawlUrl(e, {})
        \/ FetchPage(e, Docs)

SpecNews == Init /\ [][NextNews]_vars

\* robots.txt files that declare a crawl delay for every crawler, or none.
DelayFiles ==
    {<<UserAgentLine("*")>>}
        \cup {<<UserAgentLine("*"), CrawlDelayLine(d)>> : d \in {"0", "2", "soon"}}

InitDelay ==
    /\ InitCrawl
    /\ crawl_queue = {}
    /\ robots_txt \in DelayFiles
    /\ req_url = U_HOME
    /\ can_crawl = "unset"
    /\ analysis = NoAnalysis
    /\ ServiceOff

\* One engine crawling two URLs of a domain whose robots.txt is robots_txt.
NextDelay ==
    \/ Tick(MaxTimeStore)
    \/ AddSeedUrls({<<U_HOME, U_PRIV>>}, {DEFAULT_PRIORITY})
    \/ \E e \in {"e1"} :
        \/ Initialize(e)
        \/ GetNextCrawlUrl(e)
        \/ CanCrawlUrlServed(e)
        \/ WakeUp(e)
        \/ FetchFailed(e, {"HTTP"})
        \/ FetchNotHtml(e)

SpecDelay == InitDelay /\ [][NextDelay]_vars

\* ------------------------------------------------------------------ claims
QueueUrlUnique == \A r, q \in crawl_queue : r.url = q.url => r = q

\* A step of initialize() or add_seed_urls(), with any list and priority.
SeedEnqueueStep ==
    \/ \E e \in Engines : Initialize(e)
    \/ AddSeedUrls(SeedLists(URLs), {DEFAULT_PRIORITY, SEED_PRIORITY})

C2_NoDoubleClaim ==
    \A e1, e2 \in Engines : (e1 # e2 /\ cur[e1] # NoUrl) => cur[e1] # cur[e2]

C4_FailedStaysFailed ==
    [][\A r \in crawl_queue : r.retry_count >= REARM_LIMIT =>
          /\ r.status = "failed"
          /\ \A q \in crawl_queue' : q.url = r.url => q.status = "failed"]_vars

\* The policy a robots cache holds for the domain of url disallows crawling.
CacheBlocks(cache, url) ==
    /\ url # NoUrl
    /\ netloc(url) \in DOMAIN cache
    /\ ~cache[netloc(url)].allowed

\* The crawler of e leaves its robots test with a policy that disallows.
BlockedStep(e) ==
    /\ pc[e] = "robots"
    /\ pc'[e] # "robots"
    /\ CacheBlocks(robots_cache'[e], cur[e])

C6_DisallowHonoured ==
    (can_crawl # "unset" /\ Disallowed(robots_txt, url_path(req_url)))
        => can_crawl = "no"

\* max(crawl delay declared by the cached policy, configured default)
EffectiveDelay(cache, domain) ==
    LET declared == Get(cache, domain, DefaultRules).delay
    IN  IF declared # NULL /\ declared > crawl_delay THEN declared ELSE crawl_delay

\* C7: a GET to a domain starts no sooner than the effective crawl delay
\* after the start of the previous GET to that domain.
C7_CrawlDelayRespected ==
    [][\A e \in Engines : (pc[e] # "fetching" /\ pc'[e] = "fetching") =>
          LET domain == netloc(cur[e])
          IN  \/ last_fetch[domain] = NULL
              \/ now - last_fetch[domain] >= EffectiveDelay(robots_cache'[e], domain)]_vars

\* C8: no domain has more stored pages than max_pages_per_domain.
C8_DomainCap ==
    \A d \in Domains : DomainPages(pages, d) <= max_pages_per_domain

\* C9: the processing of a page adds no queue row for a URL of a domain whose
\* stored-page count is at or above the cap when the links are extracted.
C9_NoEnqueueAtCap ==
    [][\A e \in Engines : (pc[e] = "fetching" /\ page_seq' # page_seq) =>
          \A q \in crawl_queue' :
              DomainPages(pages', q.domain) >= max_pages_per_domain =>
                  \E r \in crawl_queue : r.url = q.url]_vars

\* C9 witness: the page of U_HOME, which links to U_PRIV of the same domain,
\* was processed and U_PRIV has no queue row.
C9_Witness ==
    /\ \E p \in pages : p.url = U_HOME
    /\ \E r \in crawl_queue : r.url = U_HOME /\ r.error_message = "completed"
    /\ \A r \in crawl_queue : r.url # U_PRIV

\* C10: the index holds one entry per stored page, with the page's title and
\* content, and no entry for an id that is not stored.
C10_IndexMatchesPages ==
    /\ \A p \in pages :
         [rowid |-> p.id, title |-> p.title, content |-> p.content] \in pages_fts
    /\ \A f \in pages_fts : \E p \in pages : p.id = f.rowid
    /\ \A f, g \in pages_fts : f.rowid = g.rowid => f = g

\* C11: while _store_page runs, the page table and the index stay as they
\* were; when it ends, either neither has changed (a statement or the commit
\* failed) or both have: the page row and its index entry appear together.
C11_StoreAllOrNothing ==
    [][\A e \in Engines :
          /\ (pc[e] \in {"fetching", "storing"} /\ pc'[e] \in {"storing", "indexed"})
                => (pages' = pages /\ pages_fts' = pages_fts)
          /\ (pc[e] \in {"storing", "indexed"} /\ pc'[e] = "idle")
                => \/ pages' = pages /\ pages_fts' = pages_fts
                   \/ /\ pc[e] = "indexed"
                      /\ \E q \in pages' \ pages : q.url = cur[e] /\ q.id = page_seq'
                      /\ \E f \in pages_fts' \ pages_fts : f.rowid = page_seq']_vars

\* C11 witness: one _store_page has failed (its URL is completed and has no
\* page) and another has committed a page with its index entry.
C11_Witness ==
    /\ \E r \in crawl_queue :
          /\ r.error_message = "completed"
          /\ \A p \in pages : p.url # r.url
    /\ \E p \in pages : \E f \in pages_fts : f.rowid = p.id

\* The row the crawler of e has just been handed by _get_next_crawl_url.
ClaimedRow(e) == CHOOSE c \in crawl_queue : c.url = cur'[e]

\* The crawler of e takes a URL from _get_next_crawl_url in this step.
ClaimStep(e) == pc[e] \in {"idle", "selected"} /\ pc'[e] = "robots"

\* C12: a row queued for an allow-listed external link is not claimed while
\* a seed row or an internal-link row is eligible.
C12_PriorityTiers ==
    [][\A e \in Engines : ClaimStep(e) =>
          \A r \in crawl_queue :
              (Eligible(r, now) /\ r.priority \in {SEED_PRIORITY, INTERNAL_PRIORITY})
                  => ClaimedRow(e).priority # EXTERNAL_PRIORITY]_vars

\* C13: the row handed out by _get_next_crawl_url was pending, with no
\* last_attempt or one older than the cool-down, when the call began to
\* mark it, and it is crawling afterwards.
C13_ClaimsOnlyEligible ==
    [][\A e \in Engines : ClaimStep(e) =>
          /\ \E r \in crawl_queue :
                /\ r.url = cur'[e]
                /\ r.status = "pending"
                /\ (r.last_attempt = NULL \/ r.last_attempt < now - COOLDOWN)
          /\ \A q \in crawl_queue' : q.url = cur'[e] => q.status = "crawling"]_vars

\* C14: a row whose fetch brought a non-HTML content type has had its
\* retry_count incremented and is pending or failed.
C14_NotHtmlIsRetried ==
    \A r \in crawl_queue : r.error_message = "not_html" =>
        r.status \in {"pending", "failed"} /\ r.retry_count > 0

\* C15: a row is marked completed after a fetch only in a step that stores
\* its page.
C15_CompletedMeansStored ==
    [][\A r \in crawl_queue : \A q \in crawl_queue' :
          (r.url = q.url /\ r.status = "crawling"
              /\ q.status = "completed" /\ q.error_message = "completed")
          => \E p \in pages' : p.url = q.url /\ p.id > page_seq]_vars

\* C16: the crawler is never stopped, and whenever an exception has left an
\* iteration the crawler comes back to the top of its loop.
C16_LoopSurvives ==
    /\ [](\A e \in Engines : pc[e] # "stopped")
    /\ ((pc["e1"] = "raised") ~> (pc["e1"] = "idle"))

\* C16 witness: an iteration was aborted by a storage error (its row is still
\* crawling) and the crawler has since claimed another URL.
C16_Witness ==
    /\ pc["e1"] = "robots"
    /\ \E r \in crawl_queue : r.status = "crawling" /\ r.url # cur["e1"]

\* C17: once cleanup() has been called no row goes from pending to crawling
\* and no retry_count changes.
C17_NoWorkAfterShutdown ==
    [][session_closed["e1"] =>
          \A r \in crawl_queue : \A q \in crawl_queue' : r.url = q.url =>
              /\ ~(r.status = "pending" /\ q.status = "crawling")
              /\ q.retry_count = r.retry_count]_vars

\* Every queue row is completed or failed.
AllTerminal == \A r \in crawl_queue : r.status \in {"completed", "failed"}

\* C18: with every fetch failing no row is fetched (and fails) more than
\* REARM_LIMIT times, and eventually every row is completed or failed for
\* good.
C18_WorkIsBounded ==
    /\ [](\A r \in crawl_queue : r.retry_count <= REARM_LIMIT)
    /\ <>[]AllTerminal

\* C18 witness: a queue of several rows has come to rest, one of them failed
\* after REARM_LIMIT fetches.
C18_Witness ==
    /\ AllTerminal
    /\ Cardinality(crawl_queue) >= 2
    /\ \E r \in crawl_queue : r.status = "failed" /\ r.retry_count = REARM_LIMIT

\* A search is answered in this step.
SearchStep == search_vars' # search_vars

\* The stored pages whose title or content holds a query term longer than 2
\* characters.
Wanted(terms) ==
    {p \in pages : \E i \in 1..Len(terms) :
        Len(terms[i]) > 2 /\ Fold(terms[i]) \in Tokens(p.title) \cup Tokens(p.content)}

\* C19: a web search on a readable store returns URLs of stored pages that
\* hold a query term longer than 2 characters, each once, and as many of
\* them as there are, up to max_results.
C19_WebSearchResults ==
    [][(SearchStep /\ search_response'.error # "store") =>
          LET results == search_response'.results
              want    == Wanted(search_query')
          IN  /\ \A i \in DOMAIN results : \E p \in want : p.url = results[i]
              /\ \A i, j \in DOMAIN results : results[i] = results[j] => i = j
              /\ Len(results) = IF Cardinality(want) < max_results'
                                THEN Cardinality(want) ELSE max_results']_vars

\* C19 witness: two pages hold the term, one of them of low and one of high
\* quality, and the search for it with max_results 1 has returned one URL.
C19_Witness ==
    /\ search_response.error = "none"
    /\ max_results = 1
    /\ Len(search_response.results) = 1
    /\ Cardinality({p.quality_score : p \in Wanted(search_query)}) = 2

\* C20: a search on an empty index, one that no stored page matches and one
\* on an unreadable store return no results and total_results 0.
C20_EmptyResponse ==
    [][SearchStep =>
          ((pages_fts = {} \/ Wanted(search_query') = {}
                \/ search_response'.error = "store")
            => /\ search_response'.results = << >>
               /\ search_response'.total_results = 0)]_vars

\* What the caller of search() receives: the fields of the SearchResponse.
Visible(r) == [results |-> r.results, total_results |-> r.total_results]

\* C21: a search whose query has no term longer than 2 characters does not
\* return the empty response of a query that matches nothing.
C21_MalformedRejected ==
    [][(SearchStep /\ PrepareFtsQuery(search_query') = << >>) =>
          \/ search_response'.state # "returned"
          \/ Visible(search_response') # [results |-> << >>, total_results |-> 0]]_vars

\* The stored page of a result.
PageOf(url) == CHOOSE p \in pages : p.url = url

\* textRelevance(query) of a stored page: larger for the better match.
TextRelevance(p, terms) ==
    LET f == CHOOSE f \in pages_fts : f.rowid = p.id
    IN  0 - Bm25(f, PrepareFtsQuery(terms))

RankingScore(p, terms) == TextRelevance(p, terms) * (1 + p.page_rank) * p.quality_score

\* C22: the results of a web search come in descending order of
\* textRelevance * (1 + page_rank) * quality_score.
C22_RankedDescending ==
    [][(SearchStep /\ search_response'.error = "none") =>
          LET results == search_response'.results
          IN  \A i, j \in DOMAIN results :
                i < j => RankingScore(PageOf(results[i]), search_query')
                           >= RankingScore(PageOf(results[j]), search_query')]_vars

\* C23: two results of equal ranking score come most recent crawl first.
C23_TiesByRecency ==
    [][(SearchStep /\ search_response'.error = "none") =>
          LET results == search_response'.results
          IN  \A i, j \in DOMAIN results :
                (i < j /\ RankingScore(PageOf(results[i]), search_query')
                            = RankingScore(PageOf(results[j]), search_query'))
                  => PageOf(results[i]).crawl_timestamp
                       >= PageOf(results[j]).crawl_timestamp]_vars

\* C30: when _respect_crawl_delay lets the GET to a domain start, or sets
\* the time it will start, that time is the time of the previous GET plus
\* max(declared crawl delay, configured default), or later.
C30_DelayIsMaximum ==
    [][\A e \in Engines : (pc[e] = "robots" /\ pc'[e] \in {"fetching", "sleeping"}) =>
          LET domain     == netloc(cur[e])
              last_crawl == Get(last_crawl_times[e], domain, NULL)
              start      == IF pc'[e] = "sleeping" THEN wake'[e] ELSE now
          IN  last_crawl # NULL =>
                start - last_crawl >= EffectiveDelay(robots_cache'[e], domain)]_vars

\* The domain is on the allow-list of external domains: one of its entries,
\* or a subdomain of one (the universe has no subdomain of an entry).
AllowListed(domain) == domain \in valuable_domains

\* The crawler of e stores the page it holds and extracts its links.
LinkStep(e) == cur[e] # NoUrl /\ cur'[e] = NoUrl /\ pages' # pages

\* C29: every queue row that link extraction creates is for a URL of the
\* domain of the page, or of a domain on the external allow-list.
C29_EnqueueAllowListed ==
    [][\A e \in Engines : LinkStep(e) =>
          \A r \in crawl_queue' :
              (\A q \in crawl_queue : q.url # r.url)
                  => \/ netloc(r.url) = netloc(cur[e])
                     \/ AllowListed(netloc(r.url))]_vars

\* C27: every row of the image table names a page that is in the page table.
C27_ImagesOwned ==
    \A i \in images : \E p \in pages : p.id = i.page_id

\* C28: once a page with an anchor has been stored and its links extracted,
\* the link table holds a row whose from_page_id is that page.
C28_LinksRecorded ==
    \A p \in pages : LinksOf(p.url) # << >> => \E l \in links : l.from_page_id = p.id

\* The type the classification rule gives: the first of news, academic and
\* reference with at least 2 indicators, else web.
TypeByRule(i) ==
    IF CountTrue(<<i.url_news, i.title_news, i.time_tag, i.content_news>>) >= 2
    THEN "news"
    ELSE IF CountTrue(<<i.url_edu, i.title_academic, i.content_academic>>) >= 2
    THEN "academic"
    ELSE IF CountTrue(<<i.url_reference, i.title_reference>>) >= 2
    THEN "reference"
    ELSE "web"

\* C25: the content type computed for a page is the one the rule gives.
C25_ClassifiedByRule ==
    analysis.content_type # "none"
        => analysis.content_type = TypeByRule(analysis.soup.indicators)

\* C26: the quality score computed for a page, and the quality score of every
\* stored page, lies between 0 and 1 (10 tenths).
C26_QualityInRange ==
    /\ analysis.content_type # "none"
          => 0 <= analysis.quality_score /\ analysis.quality_score <= 10
    /\ \A p \in pages : 0 <= p.quality_score /\ p.quality_score <= 10

\* C26 witness: a page with every feature at its best has been stored with the
\* score 1, and so has (in another run) a page with none, with the score 0.
C26_Witness ==
    \E p \in pages :
        /\ p.quality_score = analysis.quality_score
        /\ p.quality_score = 10
        /\ analysis.soup.features.headings >= 2
        /\ analysis.soup.features.external_links >= 3

\* A step of a news search that returned results from the store.
NewsStep ==
    SearchStep /\ search_response'.search_type = "news" /\ search_response'.error = "none"

\* C24: a news search returns only matching pages; if a matching page has
\* content_type news, only such pages; else only pages of a news domain;
\* and the results come in descending order of crawl_timestamp.
C24_NewsSearch ==
    [][NewsStep =>
          LET results == search_response'.results
              want    == Wanted(search_query')
              typed   == {p \in want : p.content_type = "news"}
          IN  /\ \A i \in DOMAIN results : PageOf(results[i]) \in want
              /\ typed # {} => \A i \in DOMAIN results : PageOf(results[i]) \in typed
              /\ typed = {} => \A i \in DOMAIN results : IsNewsDomain(PageOf(results[i]).domain)
              /\ \A i, j \in DOMAIN results :
                    i < j => PageOf(results[i]).crawl_timestamp
                               >= PageOf(results[j]).crawl_timestamp]_vars

\* C24 witness: a news search returned the one matching page of content_type
\* news, while a matching page of another type on a news domain and a
\* matching page of a.com are stored too.
C24_Witness ==
    /\ search_response.search_type = "news"
    /\ search_response.error = "none"
    /\ Len(search_response.results) = 1
    /\ max_results = 2
    /\ \E p, q \in Wanted(search_query) :
          /\ p.content_type # "news" /\ IsNewsDomain(p.domain)
          /\ ~IsNewsDomain(q.domain)

\* A step in which cleanup_old_data(days_old) ends.
CleanupStep == cleanup_result' # cleanup_result

\* The pages a cleanup with retention days_old is to delete: older than
\* days_old and of a quality below the threshold.
Aged(p, days_old, t) ==
    /\ p.crawl_timestamp < t - days_old
    /\ p.quality_score < LOW_QUALITY

\* C31: a cleanup deletes exactly the aged pages of low quality; afterwards no
\* image, link or index entry names a deleted page, and every other page is
\* unchanged.
C31_CleanupExact ==
    [][CleanupStep =>
          LET days_old == cleanup_result'.days_old
              gone     == {p \in pages : Aged(p, days_old, now)}
          IN  /\ pages' = pages \ gone
              /\ \A i \in images' : \A p \in gone : i.page_id # p.id
              /\ \A l \in links' : \A p \in gone : l.from_page_id # p.id
              /\ \A f \in pages_fts' : \A p \in gone : f.rowid # p.id]_vars

\* The step in which a web search returns the rows it has read.
WebReturnStep ==
    /\ search_response' # search_response
    /\ search_response'.state = "returned"
    /\ search_response'.search_type = "web"
    /\ search_response'.error = "none"

\* C32: a web search answers from one state of the store: each result is a
\* stored page with its own index entry, and the response holds as many
\* results as the total it reports, up to max_results.
C32_ConsistentSnapshot ==
    [][WebReturnStep =>
          LET r == search_response'
          IN  /\ \A i \in DOMAIN r.results :
                    \E p \in pages', f \in pages_fts' :
                        /\ p.url = r.results[i]
                        /\ f.rowid = p.id
                        /\ f.title = p.title /\ f.content = p.content
              /\ Len(r.results) = IF r.total_results < max_results'
                                  THEN r.total_results ELSE max_results']_vars

\* The crawler of e ends the iteration in which it crawled cur[e].
IterationEnds(e) == pc[e] # "idle" /\ pc'[e] = "idle" /\ cur[e] # NoUrl

\* C34: every iteration of the crawler ends with the row it claimed out of
\* crawling (completed, failed or pending), so that no row stays crawling.
C34_LeavesCrawling ==
    [][\A e \in Engines : IterationEnds(e) =>
          \A r \in crawl_queue' : r.url = cur[e] => r.status # "crawling"]_vars

\* C35: an iteration that ends in a failed fetch adds exactly one to the
\* retry_count of the claimed row and leaves it pending below the cap, else
\* failed; one that ends in a completion leaves the retry_count alone; and no
\* other row is changed by either.
C35_RetryAccounting ==
    [][\A e \in Engines : IterationEnds(e) =>
          \A r \in crawl_queue :
              IF r.url # cur[e] THEN r \in crawl_queue'
              ELSE \E q \in crawl_queue' :
                     /\ q.url = r.url
                     /\ IF q.error_message \in FetchErrors
                        THEN /\ q.retry_count = r.retry_count + 1
                             /\ q.status = IF q.retry_count < REARM_LIMIT
                                           THEN "pending" ELSE "failed"
                        ELSE /\ q.status = "completed"
                             /\ q.retry_count = r.retry_count]_vars

\* C35 witness: a row has failed for the last time (its retry_count is at the
\* cap) while another row has been completed without a failure.
C35_Witness ==
    \E r, q \in crawl_queue :
        /\ r.status = "failed" /\ r.retry_count = REARM_LIMIT
        /\ r.error_message \in FetchErrors
        /\ q.status = "completed" /\ q.retry_count = 0

\* The crawler of e waits out the crawl delay of the domain of cur[e].
WaitingForDomain(e) == pc[e] = "sleeping" /\ now < wake[e]

\* The delay of domain has elapsed for the crawler of e.
DelayElapsed(e, domain) ==
    LET last_crawl == Get(last_crawl_times[e], domain, NULL)
    IN  last_crawl = NULL \/ now - last_crawl >= DelayFor(robots_cache[e], domain)

\* C36: while the crawler waits out the delay of one domain, an eligible
\* pending URL of another domain whose own delay has elapsed can be claimed.
C36_WaitIsPerDomain ==
    \A e \in {"e1"} :
        (/\ WaitingForDomain(e)
         /\ \E r \in NextCandidates(crawl_queue, now) :
               r.domain # netloc(cur[e]) /\ DelayElapsed(e, r.domain))
            => ENABLED GetNextCrawlUrl(e)

\* One line of a robots.txt read group by group: consecutive User-agent
\* lines head one group, which applies when one of them names the crawler;
\* a rule line counts only inside a group that applies.
GroupLine(st, line) ==
    IF line.kind = "user-agent"
    THEN [st EXCEPT !.applies = (st.header /\ st.applies) \/ AgentApplies(line.val),
                    !.header = TRUE]
    ELSE IF st.applies /\ line.kind = "disallow" /\ line.val = "/"
    THEN [st EXCEPT !.rules.allowed = FALSE, !.header = FALSE]
    ELSE IF st.applies /\ line.kind = "crawl-delay" /\ ParseFloat(line.val) # NULL
    THEN [st EXCEPT !.rules.delay = ParseFloat(line.val), !.header = FALSE]
    ELSE [st EXCEPT !.header = FALSE]

RECURSIVE GroupFrom(_, _, _)
GroupFrom(lines, i, st) ==
    IF i > Len(lines) THEN st
    ELSE GroupFrom(lines, i + 1, GroupLine(st, lines[i]))

\* The policy of the groups of a robots.txt that apply to the crawler.
GroupRules(lines) ==
    GroupFrom(lines, 1, [applies |-> FALSE, header |-> FALSE, rules |-> DefaultRules]).rules

\* C37: the answer of _can_crawl_url and the parsed crawl delay depend only
\* on the groups that apply to the crawler: a Disallow: / or Crawl-delay line
\* of a later group for another agent changes neither.
C37_OtherGroupsIgnored ==
    can_crawl # "unset" =>
        /\ can_crawl = IF GroupRules(robots_txt).allowed THEN "yes" ELSE "no"
        /\ ParseRobotsTxt(robots_txt).delay = GroupRules(robots_txt).delay

\* A step in which reset_failed_crawls() runs and finds something to do, or
\* returns another count than the time before.
ResetStep ==
    \/ reset_count' # reset_count
    \/ \E r \in crawl_queue, q \in crawl_queue' :
          r.url = q.url /\ r.status = "failed" /\ q.status # "failed"

\* C38: reset_failed_crawls turns every failed row into a pending row with
\* retry_count 0 and no error message, leaves every other row as it is, and
\* returns the number of rows it reset.
C38_ResetOnlyFailed ==
    [][ResetStep =>
          /\ \A r \in crawl_queue :
                IF r.status = "failed"
                THEN \E q \in crawl_queue' :
                        /\ q.url = r.url
                        /\ q.status = "pending" /\ q.retry_count = 0
                        /\ q.error_message = "NULL"
                ELSE r \in crawl_queue'
          /\ Cardinality(crawl_queue') = Cardinality(crawl_queue)
          /\ reset_count' = Cardinality({r \in crawl_queue : r.status = "failed"})]_vars

\* C38 witness: a reset has returned 1; the row it reset is pending again with
\* retry_count 0, and the queue holds another row, which was not failed.
C38_Witness ==
    /\ reset_count = 1
    /\ \E r, q \in crawl_queue :
          /\ r.status = "pending" /\ r.retry_count = 0
          /\ r.last_attempt # NULL /\ r.error_message = "NULL"
          /\ q.url # r.url /\ q.status # "failed"

\* Request t returns from perform_core_search in this step.
Returns(t) == calls[t].pc # "done" /\ calls'[t].pc = "done"

\* C33: a perform_core_search whose backend search returned an empty list
\* returns the no-results summary with sources_used 0, having scraped no
\* page and called no model, and its return leaves the cache and the key
\* index as they are.
C33_NoResultsNoEffects ==
    [][\A t \in Requests :
          (Returns(t) /\ calls'[t].results = 0) => calls[t].pc = "searching"]_vars
    /\ [][\A t \in Requests :
             (Returns(t) /\ calls'[t].results = 0 /\ calls'[t].response # "error") =>
                 /\ calls'[t].response = "no_results"
                 /\ calls'[t].sources_used = 0
                 /\ calls'[t].scraped = 0 /\ calls'[t].llm_calls = 0
                 /\ search_cache' = search_cache /\ added' = added
                 /\ current_key_index' = current_key_index]_vars

\* C33 witness: a request has returned the no-results summary while the
\* cache holds the entry of another request.
C33_Witness ==
    \E t \in Requests :
        /\ calls[t].pc = "done" /\ calls[t].response = "no_results"
        /\ search_cache # << >>

\* A step in which search_cache.add runs.
AddStep == added' = added + 1

\* C39: after every add the cache holds at most max_cache_size entries, the
\* entry just added is the first, and the entries kept are the newest of the
\* ones held before, in their order: only the oldest are evicted.
C39_CacheBounded ==
    [][AddStep =>
          /\ Len(search_cache') <= settings.max_cache_size
          /\ Len(search_cache') =
                IF Len(search_cache) + 1 <= settings.max_cache_size
                THEN Len(search_cache) + 1 ELSE settings.max_cache_size
          /\ search_cache' # << >> => search_cache'[1].id = added'
          /\ \A i \in 2..Len(search_cache') : search_cache'[i] = search_cache[i - 1]]_vars

\* C39 witness: a third entry was added to a cache of size 2, which holds
\* the third and the second.
C39_Witness ==
    /\ settings.max_cache_size = 2
    /\ added = 3
    /\ Len(search_cache) = 2
    /\ search_cache[1].id = 3 /\ search_cache[2].id = 2

\* Request t makes a model call in this step.
CallsModel(t) == calls'[t].llm_calls = calls[t].llm_calls + 1

====
